---- MODULE Spec2Model ----
(***************************************************************************)
(* The research -> critique -> report loop of deepdive_analyst:            *)
(* LangGraphWorkflow (src/src/workflows/langgraph_workflow.py) driving the *)
(* classifier, planner, researcher, critic and writer agents, and the      *)
(* critic's DynamicScoringManager history.                                 *)
(*                                                                         *)
(* Strings are modelled as sequences of tokens, so that concatenation,     *)
(* emptiness and prefixes are what they are in the code.                   *)
(***************************************************************************)
EXTENDS Integers, Sequences, FiniteSets, TLC

\* the workflow run: GraphState, the node to run next, the last answer of
\* _should_continue, the nodes run so far, the critic's scorer history and
\* the value execute() returned
VARIABLES state, node, decision, trace, scoring_history, result

\* DynamicScoringManager objects used on their own (tests/test_dynamic_scoring.py):
\* the arguments of the call under way, the scoring_history of each object
\* and the last call with the value it returned
VARIABLES input, histories, returned

workflow_vars == <<state, node, decision, trace, scoring_history, result>>
scorer_vars == <<input, histories, returned>>

vars == <<state, node, decision, trace, scoring_history, result,
          input, histories, returned>>

(***************************************************************************)
(* Bounds.                                                                 *)
(***************************************************************************)
\* largest max_iterations a caller passes to execute()
MaxIter == 3
\* research_iteration never grows past this in the model (guard of the
\* research step); the code itself reaches at most max_iterations, or 1
MaxPasses == MaxIter + 1

(***************************************************************************)
(* Values the agents can hand back.                                        *)
(***************************************************************************)
Intents == {"comparison", "deep_dive", "survey", "tutorial"}
\* what execute_task hands to classify_query (an AgentResult): the text of
\* the LLM when the task ran, success = False when the LLM call raised
ClassifierAnswers ==
    { [success |-> TRUE,  result |-> " Comparison\n"],
      [success |-> TRUE,  result |-> "unsure"],
      [success |-> FALSE, result |-> ""] }

\* result.strip().lower()
StripLower(text) == IF text = " Comparison\n" THEN "comparison" ELSE text

\* QueryClassifierAgent.classify_query: the label, or deep_dive when the
\* text is no label, and deep_dive as well when the task failed
classify_query(answer) ==
    IF answer.success
    THEN IF StripLower(answer.result) \in Intents
         THEN StripLower(answer.result)
         ELSE "deep_dive"
    ELSE "deep_dive"

\* the labels the classifier answers with in the runs explored
\* (comparison and deep_dive)
ClassifierLabels == {classify_query(answer) : answer \in ClassifierAnswers}

\* text tokens of a findings string
T(c) == [kind |-> "text", n |-> c]
\* the section header  "\n\n--- <iteration> ---\n"  of _research_node
Header(i) == <<[kind |-> "header", n |-> i]>>

\* findings the researcher can return: the empty string and a text
Findings == {<<>>, <<T(1)>>}

\* error text of a failing step: str(e) of a raised exception, or the
\* 'error' entry of a result with success = False
ErrorOf(step, how) ==
    CASE step = "classify"     -> "classify raised"
      [] step = "plan"         -> IF how = "raise" THEN "plan raised" ELSE "plan failed"
      [] step = "research"     -> IF how = "raise" THEN "research raised" ELSE "research failed"
      [] step = "critique"     -> IF how = "raise" THEN "critique raised" ELSE "critique failed"
      [] step = "write_report" -> "write_report raised"

\* the ways an agent call ends: a result with success = True, a result with
\* success = False, or an exception
Outcomes == {"ok", "fail", "raise"}

(***************************************************************************)
(* GraphState and the initial state built by execute().                    *)
(***************************************************************************)
GraphState(query_max) ==
    [ intent              |-> "",
      plan                |-> "",
      research_queries    |-> <<>>,
      researched_data     |-> <<>>,
      research_iteration  |-> 0,
      max_iterations      |-> query_max,
      critique_feedback   |-> "",
      needs_more_research |-> FALSE,
      final_report        |-> "",
      error_message       |-> "",
      success             |-> TRUE ]

(***************************************************************************)
(* The nodes, as functions from the state and the agent's answer to the    *)
(* new state.                                                              *)
(***************************************************************************)
\* classifier.classify_query returns a label or raises
_classify_node(s, out, intent) ==
    IF out = "ok"
    THEN [s EXCEPT !.intent = intent, !.success = TRUE]
    ELSE [s EXCEPT !.error_message = ErrorOf("classify", out), !.success = FALSE]

\* planner.create_research_plan returns {plan, success[, error]} or raises
_plan_node(s, out, queries) ==
    CASE out = "ok" ->
           [s EXCEPT !.plan = "plan", !.research_queries = queries, !.success = TRUE]
      [] OTHER ->
           [s EXCEPT !.error_message = ErrorOf("plan", out), !.success = FALSE]

\* _research_node with the increment undone when the researcher fails
_research_node_rollback(s, out, new_data) ==
    LET s1 == [s EXCEPT !.research_iteration = s.research_iteration + 1]
        existing_data == s1.researched_data
    IN  CASE out = "ok" ->
               [s1 EXCEPT
                  !.researched_data =
                      IF existing_data # <<>>
                      THEN existing_data \o Header(s1.research_iteration) \o new_data
                      ELSE new_data,
                  !.success = TRUE]
          [] OTHER ->
               [s EXCEPT !.error_message = ErrorOf("research", out), !.success = FALSE]

\* _research_node storing the new findings in place of the accumulated ones
_research_node_replace(s, out, new_data) ==
    LET s1 == [s EXCEPT !.research_iteration = s.research_iteration + 1]
    IN  CASE out = "ok" ->
               [s1 EXCEPT !.researched_data = new_data, !.success = TRUE]
          [] OTHER ->
               [s1 EXCEPT !.error_message = ErrorOf("research", out), !.success = FALSE]

\* the increment comes first, then the researcher is called
_research_node(s, out, new_data) ==
    LET s1 == [s EXCEPT !.research_iteration = s.research_iteration + 1]
        existing_data == s1.researched_data
    IN  CASE out = "ok" ->
               [s1 EXCEPT
                  !.researched_data =
                      IF existing_data # <<>>
                      THEN existing_data \o Header(s1.research_iteration) \o new_data
                      ELSE new_data,
                  !.success = TRUE]
          [] OTHER ->
               [s1 EXCEPT !.error_message = ErrorOf("research", out), !.success = FALSE]

\* the iteration the critique node hands to critic.critique_research: the
\* call passes (researched_data, original_query) only, so the parameter
\* takes its default
CritiqueIteration(s) == 1

\* critic.critique_research returns {critique, needs_more_research, success, ...}
_critique_node(s, out, nmr) ==
    CASE out = "ok" ->
           [s EXCEPT !.critique_feedback = "critique",
                     !.needs_more_research = nmr,
                     !.success = TRUE]
      [] OTHER ->
           [s EXCEPT !.error_message = ErrorOf("critique", out), !.success = FALSE]

\* the report body that says the writer failed ("<failure prefix>: <error>")
FailedReport == "report generation failed: task error"

\* ReportWriterAgent.write_report: the template is filled, then the LLM task
\* optimises the report; a failing task falls back to the template text; a
\* failing template falls back to a plain LLM task, and only when that one
\* fails too is the failure text returned
write_report(template, task) ==
    IF template = "ok"
    THEN IF task = "ok" THEN "llm report" ELSE "template report"
    ELSE IF task = "ok" THEN "llm report" ELSE FailedReport

\* _write_report_node leaving the success flag of the earlier nodes as it is
\* when the report was written
_write_report_node_keep_flag(s, raised, report) ==
    IF ~raised
    THEN [s EXCEPT !.final_report = report]
    ELSE [s EXCEPT !.error_message = ErrorOf("write_report", "raise"), !.success = FALSE]

\* writer.write_report returns a report text or raises
_write_report_node(s, raised, report) ==
    IF ~raised
    THEN [s EXCEPT !.final_report = report, !.success = TRUE]
    ELSE [s EXCEPT !.error_message = ErrorOf("write_report", "raise"), !.success = FALSE]

\* the rule of _should_continue that decides, 1..4 in the order of the code
ShouldContinueRule(s) ==
    IF ~s.success THEN 1
    ELSE IF s.research_iteration >= s.max_iterations THEN 2
    ELSE IF s.needs_more_research THEN 3
    ELSE 4

\* _should_continue asking the critic before the ceiling
_should_continue_critic_first(s) ==
    IF ~s.success THEN "finish"
    ELSE IF s.needs_more_research THEN "continue"
    ELSE IF s.research_iteration >= s.max_iterations THEN "finish"
    ELSE "finish"

\* _should_continue with > for >= in the ceiling test
_should_continue_off_by_one(s) ==
    IF ~s.success THEN "finish"
    ELSE IF s.research_iteration > s.max_iterations THEN "finish"
    ELSE IF s.needs_more_research THEN "continue"
    ELSE "finish"

\* _should_continue testing against the default ceiling 3 of state.get
\* instead of the caller's max_iterations
_should_continue_default_ceiling(s) ==
    IF ~s.success THEN "finish"
    ELSE IF s.research_iteration >= 3 THEN "finish"
    ELSE IF s.needs_more_research THEN "continue"
    ELSE "finish"

\* _should_continue without the ceiling test
_should_continue_no_ceiling(s) ==
    IF ~s.success THEN "finish"
    ELSE IF s.needs_more_research THEN "continue"
    ELSE "finish"

_should_continue(s) ==
    IF ~s.success THEN "finish"
    ELSE IF s.research_iteration >= s.max_iterations THEN "finish"
    ELSE IF s.needs_more_research THEN "continue"
    ELSE "finish"

(***************************************************************************)
(* The scorer's history: calculate_dynamic_score appends one result per    *)
(* call; the entry carries the iteration it was called with.               *)
(***************************************************************************)
ScoringEntry(iteration) == [iteration |-> iteration]

\* the scorer objects are not touched
NoScorerCall ==
    /\ input = <<>>
    /\ histories = <<>>
    /\ returned = <<>>

(***************************************************************************)
(* The run.                                                                *)
(***************************************************************************)
\* one executed node: its name, how its agent call ended, and what the agent
\* handed back (findings of a research pass, needs_more_research of a critique)
Step(n, out, data, nmr) == [node |-> n, outcome |-> out, data |-> data, nmr |-> nmr]

Init ==
    /\ \E m \in 0..MaxIter : state = GraphState(m)
    /\ node = "classify"
    /\ decision = [branch |-> "none", rule |-> 0]
    /\ trace = <<>>
    /\ scoring_history = <<>>
    /\ result = <<>>
    /\ NoScorerCall

ClassifyNode ==
    /\ node = "classify"
    /\ \E out \in {"ok", "raise"}, answer \in ClassifierAnswers :
         /\ state' = _classify_node(state, out, classify_query(answer))
         /\ trace' = Append(trace,
                Step("classify", out, IF out = "ok" THEN answer ELSE <<>>, FALSE))
    /\ node' = "plan"
    /\ UNCHANGED <<decision, scoring_history, result, scorer_vars>>

\* _extract_search_queries(plan): at most five query strings, never raises
QueryLists == {<<"q1", "q2">>}

PlanNode ==
    /\ node = "plan"
    /\ \E out \in Outcomes, queries \in QueryLists :
         /\ state' = _plan_node(state, out, queries)
         /\ trace' = Append(trace, Step("plan", out, <<>>, FALSE))
    /\ node' = "research"
    /\ UNCHANGED <<decision, scoring_history, result, scorer_vars>>

ResearchNode ==
    /\ node = "research"
    /\ state.research_iteration < MaxPasses
    /\ \E out \in Outcomes, new_data \in Findings :
         /\ state' = _research_node(state, out, new_data)
         /\ trace' = Append(trace, Step("research", out, new_data, FALSE))
    /\ node' = "critique"
    /\ UNCHANGED <<decision, scoring_history, result, scorer_vars>>

\* critique_research runs the scorer once on every path that returns, and
\* the conditional edge is evaluated on the state the node returns
CritiqueNode ==
    /\ node = "critique"
    /\ \E out \in Outcomes, nmr \in BOOLEAN :
         /\ state' = _critique_node(state, out, nmr)
         /\ trace' = Append(trace, Step("critique", out, <<>>, nmr))
         /\ scoring_history' =
               IF out = "raise"
               THEN scoring_history
               ELSE Append(scoring_history, ScoringEntry(CritiqueIteration(state)))
    /\ decision' = [branch |-> _should_continue(state'), rule |-> ShouldContinueRule(state')]
    /\ node' = IF _should_continue(state') = "continue" THEN "research" ELSE "write_report"
    /\ UNCHANGED <<result, scorer_vars>>

WriteReportNode ==
    /\ node = "write_report"
    /\ \E raised \in BOOLEAN, template \in {"ok", "raise"}, task \in {"ok", "fail"} :
         /\ state' = _write_report_node(state, raised, write_report(template, task))
         /\ trace' = Append(trace,
                Step("write_report",
                     IF raised THEN "raise" ELSE IF task = "ok" THEN "ok" ELSE "fail",
                     <<>>, FALSE))
    /\ node' = "END"
    /\ UNCHANGED <<decision, scoring_history, result, scorer_vars>>

\* execute() builds its result from the final state of graph.invoke
ExecuteReturn ==
    /\ node = "END"
    /\ result' = << [ success             |-> state.success,
                      intent              |-> state.intent,
                      final_report        |-> state.final_report,
                      research_iterations |-> state.research_iteration,
                      error               |-> state.error_message ] >>
    /\ node' = "returned"
    /\ UNCHANGED <<state, decision, trace, scoring_history, scorer_vars>>

Next ==
    \/ ClassifyNode
    \/ PlanNode
    \/ ResearchNode
    \/ CritiqueNode
    \/ WriteReportNode
    \/ ExecuteReturn

Spec == Init /\ [][Next]_vars

\* graph.invoke runs the next node as long as there is one, and every agent
\* call returns
FairSpec == Spec /\ WF_vars(Next)

(***************************************************************************)
(* _should_continue called on its own, on any GraphState                   *)
(* (tests/test_langgraph_workflow.py, test_should_continue_logic).         *)
(***************************************************************************)
InitBranch ==
    /\ \E m \in 0..MaxIter, i \in 0..(MaxIter + 1), ok \in BOOLEAN, nmr \in BOOLEAN :
         state = [GraphState(m) EXCEPT !.research_iteration = i,
                                       !.success = ok,
                                       !.needs_more_research = nmr]
    /\ node = "branch"
    /\ decision = [branch |-> "none", rule |-> 0]
    /\ trace = <<>>
    /\ scoring_history = <<>>
    /\ result = <<>>
    /\ NoScorerCall

ShouldContinueCall ==
    /\ node = "branch"
    /\ decision' = [branch |-> _should_continue(state), rule |-> ShouldContinueRule(state)]
    /\ node' = "branched"
    /\ UNCHANGED <<state, trace, scoring_history, result, scorer_vars>>

NextBranch == ShouldContinueCall

SpecBranch == InitBranch /\ [][NextBranch]_vars

(***************************************************************************)
(* DynamicScoringManager (src/src/agents/scoring_manager.py).              *)
(*                                                                         *)
(* Numbers.  Scores are integers.  The bonuses, the penalty, the tolerance *)
(* and the overall score are decimals with one digit and are kept in       *)
(* tenths.  The quality metrics are quotients of counts and are kept as    *)
(* fractions.  round() is Python's: to the nearest, a tie to the even      *)
(* neighbour.                                                              *)
(***************************************************************************)
\* the fraction n/d
Q(n, d) == [num |-> n, den |-> d]

\* q > t/10 and q < t/10 for a fraction q
GtTenths(q, t) == q.num * 10 > t * q.den
LtTenths(q, t) == q.num * 10 < t * q.den

\* min(q, 1.0)
Min1(q) == IF q.num > q.den THEN Q(1, 1) ELSE q

\* round(n / d) for d > 0
round(n, d) ==
    LET q == n \div d
        r == n % d
    IN  IF 2 * r > d THEN q + 1
        ELSE IF 2 * r < d THEN q
        ELSE IF q % 2 = 0 THEN q ELSE q + 1

\* the range the adjusted scores are clamped to
MinScore == 1
MaxScore == 10

\* QualityMetrics
QualityMetrics(density, consistency, completeness, relevance, contradictions, coverage) ==
    [ information_density |-> density,
      consistency_score   |-> consistency,
      completeness_score  |-> completeness,
      relevance_score     |-> relevance,
      contradiction_count |-> contradictions,
      coverage_ratio      |-> coverage ]

\* _get_progressive_critique_standards counting the calls scored so far
\* instead of taking the iteration
_get_progressive_critique_standards_by_history(self, iteration) ==
    IF Len(self) + 1 = 1
    THEN [focus |-> "basic completeness", threshold |-> 6, tolerance |-> 8,
          emphasis |-> "completeness"]
    ELSE IF Len(self) + 1 = 2
    THEN [focus |-> "accuracy", threshold |-> 7, tolerance |-> 7,
          emphasis |-> "accuracy"]
    ELSE IF Len(self) + 1 = 3
    THEN [focus |-> "deep analysis", threshold |-> 8, tolerance |-> 6,
          emphasis |-> "consistency"]
    ELSE [focus |-> "overall quality", threshold |-> 8, tolerance |-> 5,
          emphasis |-> "overall"]

\* the standards of an iteration; tolerance in tenths.  self is the object's
\* scoring_history.
_get_progressive_critique_standards(self, iteration) ==
    IF iteration = 1
    THEN [focus |-> "basic completeness", threshold |-> 6, tolerance |-> 8,
          emphasis |-> "completeness"]
    ELSE IF iteration = 2
    THEN [focus |-> "accuracy", threshold |-> 7, tolerance |-> 7,
          emphasis |-> "accuracy"]
    ELSE IF iteration = 3
    THEN [focus |-> "deep analysis", threshold |-> 8, tolerance |-> 6,
          emphasis |-> "consistency"]
    ELSE [focus |-> "overall quality", threshold |-> 8, tolerance |-> 5,
          emphasis |-> "overall"]

\* _calculate_adjustment_factors with >= for > in the tests of the
\* consistency score and the information density
_calculate_adjustment_factors_inclusive(iteration, quality_metrics) ==
    [ iteration_bonus    |-> IF iteration <= 2 THEN (3 - iteration) * 5 ELSE 0,
      complexity_penalty |-> IF iteration > 2 THEN (iteration - 2) * 2 ELSE 0,
      consistency_bonus  |->
          IF ~LtTenths(quality_metrics.consistency_score, 8) THEN 3
          ELSE IF ~LtTenths(quality_metrics.consistency_score, 6) THEN 1
          ELSE 0,
      density_bonus      |->
          IF ~LtTenths(quality_metrics.information_density, 7) THEN 2
          ELSE IF ~LtTenths(quality_metrics.information_density, 5) THEN 1
          ELSE 0 ]

\* the adjustment factors, in tenths
_calculate_adjustment_factors(iteration, quality_metrics) ==
    [ iteration_bonus    |-> IF iteration <= 2 THEN (3 - iteration) * 5 ELSE 0,
      complexity_penalty |-> IF iteration > 2 THEN (iteration - 2) * 2 ELSE 0,
      consistency_bonus  |->
          IF GtTenths(quality_metrics.consistency_score, 8) THEN 3
          ELSE IF GtTenths(quality_metrics.consistency_score, 6) THEN 1
          ELSE 0,
      density_bonus      |->
          IF GtTenths(quality_metrics.information_density, 7) THEN 2
          ELSE IF GtTenths(quality_metrics.information_density, 5) THEN 1
          ELSE 0 ]

\* max(1, min(10, x))
Clamp(x) ==
    IF x < MinScore THEN MinScore ELSE IF x > MaxScore THEN MaxScore ELSE x

\* _apply_dynamic_adjustment without the clamp
_apply_dynamic_adjustment_unclamped(base_scores, adjustment_factors) ==
    LET total_adjustment ==
            adjustment_factors.iteration_bonus + adjustment_factors.consistency_bonus
              + adjustment_factors.density_bonus - adjustment_factors.complexity_penalty
    IN  [ completeness |-> round(base_scores.completeness * 10 + total_adjustment, 10),
          accuracy     |-> round(base_scores.accuracy * 10 + total_adjustment, 10) ]

_apply_dynamic_adjustment(base_scores, adjustment_factors) ==
    LET total_adjustment ==
            adjustment_factors.iteration_bonus + adjustment_factors.consistency_bonus
              + adjustment_factors.density_bonus - adjustment_factors.complexity_penalty
    IN  [ completeness |->
              Clamp(round(base_scores.completeness * 10 + total_adjustment, 10)),
          accuracy     |->
              Clamp(round(base_scores.accuracy * 10 + total_adjustment, 10)) ]

\* the overall score, in tenths:
\* round(c*0.3 + a*0.3 + consistency*10*0.2 + relevance*10*0.2, 1)
_calculate_overall_score(adjusted_scores, quality_metrics) ==
    LET c == quality_metrics.consistency_score
        r == quality_metrics.relevance_score
    IN  round( (3 * adjusted_scores.completeness + 3 * adjusted_scores.accuracy)
                   * c.den * r.den
                 + 20 * c.num * r.den + 20 * r.num * c.den,
               c.den * r.den )

\* threshold * tolerance is a product of doubles: 6 * 0.8 is
\* 4.800000000000001, 7 * 0.7 is 4.8999999999999995, 8 * 0.6 is 4.8 and
\* 8 * 0.5 is 4.0.  eps is the sign of the distance to the decimal.
adjusted_threshold(critique_standards) ==
    [ tenths |-> critique_standards.threshold * critique_standards.tolerance,
      eps    |-> IF critique_standards.threshold = 6 /\ critique_standards.tolerance = 8
                 THEN 1
                 ELSE IF critique_standards.threshold = 7
                         /\ critique_standards.tolerance = 7
                 THEN 0 - 1
                 ELSE 0 ]

\* overall_score < adjusted_threshold, overall_score a decimal with one digit
BelowThreshold(overall_score, threshold) ==
    \/ overall_score < threshold.tenths
    \/ overall_score = threshold.tenths /\ threshold.eps > 0

\* the rule of _determine_research_continuation that decides
ContinuationRule(overall_score, iteration, quality_metrics, critique_standards) ==
    IF BelowThreshold(overall_score, adjusted_threshold(critique_standards)) THEN "a"
    ELSE IF quality_metrics.contradiction_count > 3 THEN "b"
    ELSE IF LtTenths(quality_metrics.coverage_ratio, 6) THEN "c"
    ELSE IF iteration >= 3 THEN "d"
    ELSE "e"

\* _determine_research_continuation with the iteration ceiling tested first
_determine_research_continuation_ceiling_first(overall_score, iteration, quality_metrics, critique_standards) ==
    IF iteration >= 3 THEN FALSE
    ELSE IF BelowThreshold(overall_score, adjusted_threshold(critique_standards)) THEN TRUE
    ELSE IF quality_metrics.contradiction_count > 3 THEN TRUE
    ELSE IF LtTenths(quality_metrics.coverage_ratio, 6) THEN TRUE
    ELSE FALSE

\* _determine_research_continuation without the coverage rule
_determine_research_continuation_no_coverage_rule(overall_score, iteration, quality_metrics, critique_standards) ==
    IF BelowThreshold(overall_score, adjusted_threshold(critique_standards)) THEN TRUE
    ELSE IF quality_metrics.contradiction_count > 3 THEN TRUE
    ELSE IF iteration >= 3 THEN FALSE
    ELSE FALSE

_determine_research_continuation(overall_score, iteration, quality_metrics, critique_standards) ==
    IF BelowThreshold(overall_score, adjusted_threshold(critique_standards)) THEN TRUE
    ELSE IF quality_metrics.contradiction_count > 3 THEN TRUE
    ELSE IF LtTenths(quality_metrics.coverage_ratio, 6) THEN TRUE
    ELSE IF iteration >= 3 THEN FALSE
    ELSE FALSE

\* calculate_dynamic_score from the quality metrics on: standards, factors,
\* adjustment, overall score, decision, and the result dictionary
ScoreMetrics(self, base_scores, iteration, quality_metrics) ==
    LET critique_standards == _get_progressive_critique_standards(self, iteration)
        adjustment_factors == _calculate_adjustment_factors(iteration, quality_metrics)
        adjusted_scores    == _apply_dynamic_adjustment(base_scores, adjustment_factors)
        overall_score      == _calculate_overall_score(adjusted_scores, quality_metrics)
        needs_more_research ==
            _determine_research_continuation(overall_score, iteration, quality_metrics,
                                             critique_standards)
    IN  [ completeness_score  |-> adjusted_scores.completeness,
          accuracy_score      |-> adjusted_scores.accuracy,
          overall_score       |-> overall_score,
          needs_more_research |-> needs_more_research,
          quality_metrics     |-> quality_metrics,
          adjustment_factors  |-> adjustment_factors,
          critique_standards  |-> critique_standards,
          iteration           |-> iteration ]

(***************************************************************************)
(* The scoring steps applied to quality metrics given directly             *)
(* (tests/test_dynamic_scoring.py builds QualityMetrics by hand).          *)
(***************************************************************************)
\* largest iteration the scoring steps are applied to
MaxScoreIter == 10

BaseScores == [completeness : MinScore..MaxScore, accuracy : MinScore..MaxScore]

\* metric values around the limits the code tests them against
DensityGrid == {Q(0, 1), Q(1, 2), Q(3, 5), Q(7, 10), Q(4, 5)}
ConsistencyGrid == {Q(0, 1), Q(3, 5), Q(7, 10), Q(4, 5), Q(9, 10), Q(1, 1)}
RelevanceGrid == {Q(0, 1), Q(1, 2), Q(1, 1)}
ContradictionGrid == {0, 3, 5}
CoverageGrid == {Q(0, 1), Q(3, 5), Q(1, 1)}

InitMetrics ==
    /\ \E base_scores \in BaseScores, iteration \in 1..MaxScoreIter,
          density \in DensityGrid, consistency \in ConsistencyGrid,
          relevance \in RelevanceGrid, contradictions \in ContradictionGrid,
          coverage \in CoverageGrid :
         input = [ base_scores     |-> base_scores,
                   iteration       |-> iteration,
                   quality_metrics |->
                       QualityMetrics(density, consistency, Q(0, 1), relevance,
                                      contradictions, coverage) ]
    /\ histories = <<>>
    /\ returned = <<>>
    /\ state = GraphState(0)
    /\ node = "score"
    /\ decision = [branch |-> "none", rule |-> 0]
    /\ trace = <<>>
    /\ scoring_history = <<>>
    /\ result = <<>>

ScoreMetricsCall ==
    /\ node = "score"
    /\ returned' =
          << [ method |-> "score_metrics",
               ret    |-> ScoreMetrics(<<>>, input.base_scores, input.iteration,
                                       input.quality_metrics),
               rule   |-> LET r == ScoreMetrics(<<>>, input.base_scores, input.iteration,
                                                input.quality_metrics)
                          IN  ContinuationRule(r.overall_score, input.iteration,
                                               input.quality_metrics,
                                               r.critique_standards) ] >>
    /\ node' = "scored"
    /\ UNCHANGED <<input, histories, state, decision, trace, scoring_history, result>>

NextMetrics == ScoreMetricsCall

SpecMetrics == InitMetrics /\ [][NextMetrics]_vars

(***************************************************************************)
(* Properties.                                                             *)
(***************************************************************************)
\* how often node n has run
Count(n) == Cardinality({i \in DOMAIN trace : trace[i].node = n})

IsPrefix(a, b) == Len(a) <= Len(b) /\ SubSeq(b, 1, Len(a)) = a
IsSuffix(a, b) == Len(a) <= Len(b) /\ SubSeq(b, Len(b) - Len(a) + 1, Len(b)) = a

\* the research/critique loop has been left
LoopLeft == node \in {"write_report", "END", "returned"}

\* C1: _should_continue answers 'finish' for a failed state; otherwise
\* 'finish' once research_iteration >= max_iterations; otherwise 'continue'
\* when needs_more_research; otherwise 'finish' -- for every combination of
\* the four fields.
C1_BranchPrecedence ==
    node = "branched" =>
        /\ ~state.success => decision.branch = "finish"
        /\ state.success /\ state.research_iteration >= state.max_iterations
              => decision.branch = "finish"
        /\ state.success /\ state.research_iteration < state.max_iterations
              /\ state.needs_more_research
              => decision.branch = "continue"
        /\ state.success /\ state.research_iteration < state.max_iterations
              /\ ~state.needs_more_research
              => decision.branch = "finish"

\* the ceiling decides although the critic asks for more research
C1_Witness ==
    /\ node = "branched"
    /\ state.success
    /\ state.needs_more_research
    /\ state.research_iteration >= state.max_iterations
    /\ decision.branch = "finish"

\* C2: with max_iterations >= 1, research_iteration <= max_iterations in
\* every state of a run, and the research node is not entered with
\* research_iteration = max_iterations.
C2_IterationCeiling ==
    state.max_iterations >= 1 =>
        /\ state.research_iteration <= state.max_iterations
        /\ node = "research" => state.research_iteration < state.max_iterations

\* a run that used all its passes and was stopped by the ceiling
C2_Witness ==
    /\ state.max_iterations >= 2
    /\ state.research_iteration = state.max_iterations
    /\ decision.rule = 2
    /\ node = "returned"

\* every agent call of the loop succeeded so far and every critique asked
\* for more research
AllSucceedAlwaysMore ==
    \A i \in DOMAIN trace :
        trace[i].node \in {"classify", "plan", "research", "critique"} =>
            /\ trace[i].outcome = "ok"
            /\ trace[i].node = "critique" => trace[i].nmr

\* C3: when every agent call succeeds and every critique reports
\* needs_more_research, a run with max_iterations = N >= 1 makes exactly N
\* research passes and N critique passes and leaves the loop by the ceiling
\* rule (rule 2), not by the needs_more_research rules.
C3_ExactlyNPasses ==
    (LoopLeft /\ state.max_iterations >= 1 /\ AllSucceedAlwaysMore) =>
        /\ Count("research") = state.max_iterations
        /\ Count("critique") = state.max_iterations
        /\ decision.branch = "finish"
        /\ decision.rule = 2

\* such a run with N >= 2, after it returned
C3_Witness ==
    /\ node = "returned"
    /\ state.max_iterations >= 2
    /\ AllSucceedAlwaysMore
    /\ Count("research") = state.max_iterations

\* C4: every run reaches write_report and then END, whatever the agents
\* return or raise.
C4_Terminates == <>(node = "write_report" /\ <>(node = "END"))

\* a run that ended after looping back at least once
C4_Witness ==
    /\ node = "END"
    /\ Count("critique") >= 2
    /\ Count("write_report") = 1

\* C5: after a failed classify or plan step no research and no critique
\* pass runs, research_iteration stays 0 and execute() returns
\* success = false with that step's error (stated for max_iterations >= 1).
C5_FailedStartShortCircuits ==
    \A i \in DOMAIN trace :
        (/\ state.max_iterations >= 1
         /\ trace[i].node \in {"classify", "plan"}
         /\ trace[i].outcome # "ok") =>
            /\ Count("research") = 0
            /\ Count("critique") = 0
            /\ state.research_iteration = 0
            /\ node = "returned" =>
                  /\ ~result[1].success
                  /\ \E j \in DOMAIN trace :
                        /\ trace[j].node \in {"classify", "plan"}
                        /\ trace[j].outcome # "ok"
                        /\ result[1].error = ErrorOf(trace[j].node, trace[j].outcome)

\* C6: after a failed research or critique step no further research or
\* critique step runs, success is not set back to true, and execute()
\* returns success = false with the failing step's error.
C6_FailedLoopShortCircuits ==
    \A i \in DOMAIN trace :
        (trace[i].node \in {"research", "critique"} /\ trace[i].outcome # "ok") =>
            /\ \A j \in DOMAIN trace :
                  j > i => trace[j].node \notin {"research", "critique"}
            /\ ~state.success
            /\ node = "returned" =>
                  /\ ~result[1].success
                  /\ result[1].error = ErrorOf(trace[i].node, trace[i].outcome)

\* C7: when the writer fails (it raises, or its LLM task fails) the run
\* still returns success = true and final_report is the report body that
\* says the writer failed.
C7_WriterFailureNotFatal ==
    (node = "returned" /\ trace[Len(trace)].outcome # "ok") =>
        /\ result[1].success
        /\ result[1].final_report = FailedReport

\* C8: the k-th critique runs the scorer with iteration = k, so the k-th
\* entry of the scoring history carries iteration = k.
C8_CritiqueIterationIsPass ==
    \A k \in DOMAIN scoring_history : scoring_history[k].iteration = k

\* C9: the research node, and no other node, adds exactly 1 to
\* research_iteration, also when the researcher fails; research_iteration is
\* the number of times the research node was entered.
C9_IterationCountsPasses ==
    /\ [](state.research_iteration = Count("research"))
    /\ [][state'.research_iteration =
             state.research_iteration + (IF node = "research" THEN 1 ELSE 0)]_vars

\* a second research pass whose researcher failed
C9_Witness ==
    /\ node = "critique"
    /\ trace[Len(trace)].outcome # "ok"
    /\ state.research_iteration = 2

\* C10: researched_data only grows: its old value is a prefix of its new
\* value in every step; a successful research pass extends it by that pass's
\* findings, a failed pass and every other node leave it as it is.
C10_AppendOnly ==
    [][ LET old == state.researched_data
            new == state'.researched_data
            e   == trace'[Len(trace')]
        IN  /\ IsPrefix(old, new)
            /\ IF node = "research" /\ e.outcome = "ok"
               THEN /\ IsSuffix(e.data, new)
                    /\ Len(new) >= Len(old) + Len(e.data)
               ELSE new = old ]_vars

\* two successful passes under a header, then a failed one
C10_Witness ==
    /\ node = "critique"
    /\ trace[Len(trace)].outcome # "ok"
    /\ Len(state.researched_data) >= 3

\* the node names of the trace follow classify, plan, (research, critique)+,
\* write_report
TraceShape ==
    \A i \in DOMAIN trace :
        CASE i = 1 -> trace[i].node = "classify"
          [] i = 2 -> trace[i].node = "plan"
          [] i = 3 -> trace[i].node = "research"
          [] i > 3 /\ i % 2 = 0 -> trace[i].node = "critique"
          [] OTHER -> /\ trace[i].node \in {"research", "write_report"}
                      /\ trace[i].node = "write_report" => i = Len(trace)

\* C11: every run has the node trace classify, plan, (research, critique)+,
\* write_report, END, with classify and plan run once; final_report is empty
\* until the loop has been left and is written exactly once, by
\* write_report.
C11_LinearTraceReportOnce ==
    /\ TraceShape
    /\ Count("classify") <= 1 /\ Count("plan") <= 1
    /\ node \in {"END", "returned"} =>
          /\ Count("classify") = 1 /\ Count("plan") = 1
          /\ Count("research") >= 1 /\ Count("critique") = Count("research")
          /\ Count("write_report") = 1
    /\ ~(node \in {"END", "returned"}) => state.final_report = ""
    /\ node \in {"END", "returned"} =>
          /\ trace[Len(trace)].node = "write_report"
          /\ trace[Len(trace)].outcome # "raise"
          /\ state.final_report # ""

(***************************************************************************)
(* Properties of the scoring steps (SpecMetrics).                          *)
(***************************************************************************)
\* the scoring steps have been applied to the drawn input
Scored == returned # <<>> /\ returned[1].method = "score_metrics"

\* C12: for all integer base scores in [1,10], all iterations in
\* [1,MaxScoreIter] and all quality metrics, the adjusted completeness and
\* accuracy scores (base plus the bonuses minus the penalty, rounded, then
\* clamped) are integers in [1,10].
C12_AdjustedScoresClamped ==
    Scored =>
        /\ returned[1].ret.completeness_score \in MinScore..MaxScore
        /\ returned[1].ret.accuracy_score \in MinScore..MaxScore

\* C12 witness: the clamp acted at both ends: 10 + 1.5 was cut to 10 and
\* 1 - 0.2 * (iteration - 2), rounded below 1, was raised to 1.
C12_Witness ==
    /\ Scored
    /\ input.iteration >= 5
    /\ input.base_scores = [completeness |-> 1, accuracy |-> 10]
    /\ returned[1].ret.adjustment_factors.complexity_penalty >= 6
    /\ returned[1].ret.adjustment_factors.consistency_bonus = 0
    /\ returned[1].ret.adjustment_factors.density_bonus = 0
    /\ returned[1].ret.completeness_score = 1
    /\ returned[1].ret.accuracy_score = 9

\* C13: the overall score (in tenths) lies in [1.0, 10.0] for all base
\* scores in [1,10], all iterations >= 1 and all consistency and relevance
\* values in [0,1], the all-zero metrics included.
C13_OverallScoreInRange ==
    Scored => returned[1].ret.overall_score \in (10 * MinScore)..(10 * MaxScore)

\* C14: needs_more_research is true exactly when (a) the overall score is
\* below threshold * tolerance as the code compares them, (b)
\* contradiction_count > 3 or (c) coverage_ratio < 0.6; the ceiling
\* iteration >= 3 never overrides them, and contradiction_count = 5 gives
\* true at every iteration whatever the overall score.
C14_ContinuationOrder ==
    Scored =>
        LET ret == returned[1].ret
            qm  == input.quality_metrics
            a   == \/ ret.overall_score
                        < ret.critique_standards.threshold
                            * ret.critique_standards.tolerance
                   \/ /\ ret.overall_score = 48
                      /\ ret.critique_standards.threshold = 6
                      /\ ret.critique_standards.tolerance = 8
            b   == qm.contradiction_count > 3
            c   == qm.coverage_ratio.num * 10 < 6 * qm.coverage_ratio.den
        IN  /\ ret.needs_more_research <=> (a \/ b \/ c)
            /\ qm.contradiction_count = 5 => ret.needs_more_research
            /\ returned[1].rule = (IF a THEN "a" ELSE IF b THEN "b"
                                   ELSE IF c THEN "c"
                                   ELSE IF input.iteration >= 3 THEN "d" ELSE "e")

\* C14 witness: at iteration 5, with an overall score of 10.0 and full
\* coverage, five contradictions alone ask for more research.
C14_Witness ==
    /\ Scored
    /\ input.iteration = 5
    /\ input.quality_metrics.contradiction_count = 5
    /\ input.quality_metrics.coverage_ratio = Q(1, 1)
    /\ returned[1].ret.overall_score = 100
    /\ returned[1].rule = "b"
    /\ returned[1].ret.needs_more_research

(***************************************************************************)
(* The quality heuristics.  A text is a sequence of lines (the pieces      *)
(* between newlines, so never empty: "" is one empty line) and a line is a *)
(* sequence of words separated by single spaces.  What the regular         *)
(* expressions and the substring tests of the code see of a word is        *)
(* tabulated below.                                                        *)
(***************************************************************************)
\* "danshi" stands for the two-character Chinese word for "but" (U+4F46 U+662F)
Vocabulary ==
    {"CrewAI", "API", "framework", "frameworks", "however", "but", "the", "danshi"}

\* len(word)
Chars(w) ==
    CASE w \in {"CrewAI", "crewai"} -> 6
      [] w \in {"API", "api"} -> 3
      [] w = "framework" -> 9
      [] w = "frameworks" -> 10
      [] w = "however" -> 7
      [] w = "but" -> 3
      [] w = "the" -> 3
      [] w = "danshi" -> 2

\* word.lower()
Lower(w) ==
    CASE w = "CrewAI" -> "crewai"
      [] w = "API" -> "api"
      [] OTHER -> w

\* r'\b[A-Z][a-zA-Z]*[A-Z][a-zA-Z]*\b' matches the word
IsCamelCase(w) == w \in {"CrewAI", "API"}

\* the list of important nouns matches the word
IsImportantNoun(w) == w \in {"API"}

\* matches of the four contradiction_patterns in the word: an alternation
\* matches a place once, however often an alternative is listed
PatternHits(w) == IF w \in {"however", "but", "danshi"} THEN 1 ELSE 0

\* matches of the contradiction_indicators in the word: every entry of the
\* list is searched for on its own, and the list holds "danshi" twice
IndicatorHits(w) ==
    IF w \in {"however", "but"} THEN 1 ELSE IF w = "danshi" THEN 2 ELSE 0

\* the stop words of _extract_keywords among the vocabulary
StopWords == {"the", "but", "danshi"}

\* needle is a proper substring of the lowercase word
ProperSubstrings == {<<"frameworks", "framework">>}

RECURSIVE SeqSum(_)
SeqSum(s) == IF s = <<>> THEN 0 ELSE s[1] + SeqSum(Tail(s))

RECURSIVE Flatten(_)
Flatten(ss) == IF ss = <<>> THEN <<>> ELSE ss[1] \o Flatten(Tail(ss))

RECURSIVE Filter(_, _)
Filter(s, keep) ==
    IF s = <<>> THEN <<>>
    ELSE IF s[1] \in keep THEN <<s[1]>> \o Filter(Tail(s), keep)
    ELSE Filter(Tail(s), keep)

\* text.split()
Words(text) == Flatten(text)

\* len(line)
LineLength(line) ==
    IF line = <<>> THEN 0
    ELSE SeqSum([i \in DOMAIN line |-> Chars(line[i])]) + Len(line) - 1

\* len(text)
TextLength(text) ==
    SeqSum([i \in DOMAIN text |-> LineLength(text[i])]) + Len(text) - 1

\* not text.strip()
IsBlank(text) == \A i \in DOMAIN text : text[i] = <<>>

\* needle in text.lower(), needle a lowercase word
Contains(text, needle) ==
    \E i \in DOMAIN Words(text) :
        \/ Lower(Words(text)[i]) = needle
        \/ <<Lower(Words(text)[i]), needle>> \in ProperSubstrings

_extract_key_concepts(text) ==
    {w \in {Words(text)[i] : i \in DOMAIN Words(text)} :
        IsCamelCase(w) \/ IsImportantNoun(w)}

_extract_keywords(text) ==
    LET words    == [i \in DOMAIN Words(text) |-> Lower(Words(text)[i])]
        keywords == Filter(words, {w \in {words[i] : i \in DOMAIN words} :
                                       w \notin StopWords /\ Chars(w) > 2})
    IN  SubSeq(keywords, 1, IF Len(keywords) < 10 THEN Len(keywords) ELSE 10)

_calculate_information_density(research_data) ==
    IF IsBlank(research_data) THEN Q(0, 1)
    ELSE LET lines            == research_data
             meaningful_lines == {i \in DOMAIN lines : LineLength(lines[i]) > 10}
             tech_terms       == Cardinality({i \in DOMAIN Words(research_data) :
                                                 IsCamelCase(Words(research_data)[i])})
             total_words      == Len(Words(research_data))
             W                == IF total_words > 1 THEN total_words ELSE 1
         IN  Min1(Q(6 * Cardinality(meaningful_lines) * W + 4 * tech_terms * Len(lines),
                    10 * Len(lines) * W))

\* _calculate_consistency_score without the test for blank research data
_calculate_consistency_score_no_blank_test(research_data) ==
    LET ws == Words(research_data)
        contradiction_count == SeqSum([i \in DOMAIN ws |-> PatternHits(ws[i])])
    IN  IF contradiction_count >= 10 THEN Q(0, 1)
        ELSE Q(10 - contradiction_count, 10)

_calculate_consistency_score(research_data) ==
    IF IsBlank(research_data) THEN Q(0, 1)
    ELSE LET ws == Words(research_data)
             contradiction_count == SeqSum([i \in DOMAIN ws |-> PatternHits(ws[i])])
         IN  IF contradiction_count >= 10 THEN Q(0, 1)
             ELSE Q(10 - contradiction_count, 10)

_calculate_completeness_score(research_data, original_query) ==
    IF IsBlank(research_data) THEN Q(0, 1)
    ELSE LET query_concepts   == _extract_key_concepts(original_query)
             covered_concepts == Cardinality({c \in query_concepts :
                                                 Contains(research_data, Lower(c))})
             n                == IF Cardinality(query_concepts) > 1
                                 THEN Cardinality(query_concepts) ELSE 1
             length           == IF TextLength(research_data) > 1000 THEN 1000
                                 ELSE TextLength(research_data)
         IN  Min1(Q(7 * covered_concepts * 1000 + 3 * length * n, 10 * 1000 * n))

_calculate_relevance_score(research_data, original_query) ==
    IF IsBlank(research_data) THEN Q(0, 1)
    ELSE LET query_keywords  == _extract_keywords(original_query)
             relevance_score == Cardinality({i \in DOMAIN query_keywords :
                                                Contains(research_data, query_keywords[i])})
             n               == IF Len(query_keywords) > 1 THEN Len(query_keywords) ELSE 1
         IN  Min1(Q(relevance_score, n))

_count_contradictions(research_data) ==
    SeqSum([i \in DOMAIN Words(research_data) |-> IndicatorHits(Words(research_data)[i])])

\* _calculate_coverage_ratio giving 1.0 when the query has no concept
_calculate_coverage_ratio_vacuous(research_data, original_query) ==
    LET query_concepts   == _extract_key_concepts(original_query)
        covered_concepts == Cardinality({c \in query_concepts :
                                            Contains(research_data, Lower(c))})
    IN  IF query_concepts = {} THEN Q(1, 1)
        ELSE Q(covered_concepts, Cardinality(query_concepts))

_calculate_coverage_ratio(research_data, original_query) ==
    LET query_concepts   == _extract_key_concepts(original_query)
        covered_concepts == Cardinality({c \in query_concepts :
                                            Contains(research_data, Lower(c))})
    IN  Q(covered_concepts,
          IF Cardinality(query_concepts) > 1 THEN Cardinality(query_concepts) ELSE 1)

_assess_information_quality(research_data, original_query, iteration) ==
    QualityMetrics(_calculate_information_density(research_data),
                   _calculate_consistency_score(research_data),
                   _calculate_completeness_score(research_data, original_query),
                   _calculate_relevance_score(research_data, original_query),
                   _count_contradictions(research_data),
                   _calculate_coverage_ratio(research_data, original_query))

\* calculate_dynamic_score taking the iteration from the length of the history
calculate_dynamic_score_by_history(self, base_scores, iteration, research_data, original_query) ==
    LET quality_metrics ==
            _assess_information_quality(research_data, original_query, Len(self) + 1)
        scoring_result == ScoreMetrics(self, base_scores, Len(self) + 1, quality_metrics)
    IN  [result |-> scoring_result, scoring_history |-> Append(self, scoring_result)]

\* calculate_dynamic_score keeping only the latest result
calculate_dynamic_score_keep_latest(self, base_scores, iteration, research_data, original_query) ==
    LET quality_metrics ==
            _assess_information_quality(research_data, original_query, iteration)
        scoring_result == ScoreMetrics(self, base_scores, iteration, quality_metrics)
    IN  [result |-> scoring_result, scoring_history |-> <<scoring_result>>]

\* the returned result and the scoring_history after the call
calculate_dynamic_score(self, base_scores, iteration, research_data, original_query) ==
    LET quality_metrics ==
            _assess_information_quality(research_data, original_query, iteration)
        scoring_result == ScoreMetrics(self, base_scores, iteration, quality_metrics)
    IN  [result |-> scoring_result, scoring_history |-> Append(self, scoring_result)]

\* get_scoring_trend comparing the last score with the one before it
get_scoring_trend_previous(self) ==
    [ scoring_history |-> self,
      result |->
        IF Len(self) < 2 THEN [trend |-> "insufficient_data"]
        ELSE LET scores == [i \in DOMAIN self |-> self[i].overall_score]
             IN  [ trend    |-> IF scores[Len(scores)] > scores[Len(scores) - 1]
                                THEN "improving" ELSE "declining",
                   strength |-> IF scores[Len(scores)] > scores[Len(scores) - 1]
                                THEN scores[Len(scores)] - scores[Len(scores) - 1]
                                ELSE scores[Len(scores) - 1] - scores[Len(scores)],
                   scores   |-> scores ] ]

\* the returned dictionary and the scoring_history after the call
get_scoring_trend(self) ==
    [ scoring_history |-> self,
      result |->
        IF Len(self) < 2 THEN [trend |-> "insufficient_data"]
        ELSE LET scores == [i \in DOMAIN self |-> self[i].overall_score]
             IN  [ trend    |-> IF scores[Len(scores)] > scores[1]
                                THEN "improving" ELSE "declining",
                   strength |-> IF scores[Len(scores)] > scores[1]
                                THEN scores[Len(scores)] - scores[1]
                                ELSE scores[1] - scores[Len(scores)],
                   scores   |-> scores ] ]

(***************************************************************************)
(* One call of calculate_dynamic_score on a new scorer.                    *)
(***************************************************************************)
\* largest iteration of the call
MaxCallIter == 4

\* ""
EmptyText == << <<>> >>

\* "", "\n", "CrewAI framework", "the frameworks\nAPI",
\* "CrewAI however but\nAPI but however", "however the framework",
\* "CrewAI danshi framework"
Texts ==
    { EmptyText,
      << <<>>, <<>> >>,
      << <<"CrewAI", "framework">> >>,
      << <<"the", "frameworks">>, <<"API">> >>,
      << <<"CrewAI", "however", "but">>, <<"API", "but", "however">> >>,
      << <<"however", "the", "framework">> >>,
      << <<"CrewAI", "danshi", "framework">> >> }

\* "", "CrewAI", "the CrewAI framework API", "but the"
Queries ==
    { EmptyText,
      << <<"CrewAI">> >>,
      << <<"the", "CrewAI", "framework", "API">> >>,
      << <<"but", "the">> >> }

\* the record of a call: the count of calculate_dynamic_score calls so far,
\* the method, the scorer, the arguments, the returned value, and for
\* calculate_dynamic_score the rule that decided
Call(seq, method, scorer, args, ret, rule) ==
    [seq |-> seq, method |-> method, scorer |-> scorer, args |-> args, ret |-> ret,
     rule |-> rule]

\* the rule that decided needs_more_research of a result
RuleOf(r) ==
    ContinuationRule(r.overall_score, r.iteration, r.quality_metrics, r.critique_standards)

InitCall ==
    /\ \E base_scores \in BaseScores, iteration \in 1..MaxCallIter,
          research_data \in Texts, original_query \in Queries :
         input = [ base_scores    |-> base_scores,
                   iteration      |-> iteration,
                   research_data  |-> research_data,
                   original_query |-> original_query ]
    /\ histories = << <<>> >>
    /\ returned = <<>>
    /\ state = GraphState(0)
    /\ node = "call"
    /\ decision = [branch |-> "none", rule |-> 0]
    /\ trace = <<>>
    /\ scoring_history = <<>>
    /\ result = <<>>

CalculateCall ==
    /\ node = "call"
    /\ LET r == calculate_dynamic_score(histories[1], input.base_scores, input.iteration,
                                        input.research_data, input.original_query)
       IN  /\ returned' = << Call(1, "calculate_dynamic_score", 1, input, r.result,
                                  RuleOf(r.result)) >>
           /\ histories' = << r.scoring_history >>
    /\ node' = "called"
    /\ UNCHANGED <<input, state, decision, trace, scoring_history, result>>

NextCall == CalculateCall

SpecCall == InitCall /\ [][NextCall]_vars

(***************************************************************************)
(* Two scorer objects and the calls of their methods in any order.         *)
(***************************************************************************)
\* most calls of calculate_dynamic_score on the two scorers together
MaxCalls == 4

Scorers == {1, 2}

\* the arguments of the calculate_dynamic_score calls
CallInputs ==
    { [ base_scores |-> [completeness |-> 5, accuracy |-> 5], iteration |-> 1,
        research_data |-> EmptyText, original_query |-> EmptyText ],
      [ base_scores |-> [completeness |-> 8, accuracy |-> 8], iteration |-> 2,
        research_data |-> << <<"CrewAI", "framework">> >>,
        original_query |-> << <<"CrewAI">> >> ],
      [ base_scores |-> [completeness |-> 5, accuracy |-> 5], iteration |-> 3,
        research_data |-> << <<"however", "the", "framework">> >>,
        original_query |-> << <<"the", "CrewAI", "framework", "API">> >> ],
      [ base_scores |-> [completeness |-> 1, accuracy |-> 1], iteration |-> 4,
        research_data |-> EmptyText, original_query |-> << <<"CrewAI">> >> ] }

\* calls of calculate_dynamic_score so far
Calls == IF returned = <<>> THEN 0 ELSE returned[Len(returned)].seq

InitScorer ==
    /\ input = <<>>
    /\ histories = << <<>>, <<>> >>
    /\ returned = <<>>
    /\ state = GraphState(0)
    /\ node = "scorer"
    /\ decision = [branch |-> "none", rule |-> 0]
    /\ trace = <<>>
    /\ scoring_history = <<>>
    /\ result = <<>>

\* scorer.calculate_dynamic_score(**args)
Calculate ==
    /\ node = "scorer"
    /\ Calls < MaxCalls
    /\ \E scorer \in Scorers, args \in CallInputs :
         LET r == calculate_dynamic_score(histories[scorer], args.base_scores,
                                          args.iteration, args.research_data,
                                          args.original_query)
         IN  /\ returned' = << Call(Calls + 1, "calculate_dynamic_score", scorer, args,
                                    r.result, RuleOf(r.result)) >>
             /\ histories' = [histories EXCEPT ![scorer] = r.scoring_history]
    /\ UNCHANGED <<input, state, node, decision, trace, scoring_history, result>>

\* the same arguments given to both scorers, one call after the other
CalculateOnBoth ==
    /\ node = "scorer"
    /\ Calls + 2 <= MaxCalls
    /\ \E args \in CallInputs :
         LET r1 == calculate_dynamic_score(histories[1], args.base_scores, args.iteration,
                                           args.research_data, args.original_query)
             r2 == calculate_dynamic_score(histories[2], args.base_scores, args.iteration,
                                           args.research_data, args.original_query)
         IN  /\ returned' = << Call(Calls + 1, "calculate_dynamic_score", 1, args,
                                    r1.result, RuleOf(r1.result)),
                               Call(Calls + 2, "calculate_dynamic_score", 2, args,
                                    r2.result, RuleOf(r2.result)) >>
             /\ histories' = << r1.scoring_history, r2.scoring_history >>
    /\ UNCHANGED <<input, state, node, decision, trace, scoring_history, result>>

\* scorer._get_progressive_critique_standards(iteration)
GetStandards ==
    /\ node = "scorer"
    /\ \E scorer \in Scorers, iteration \in 1..(MaxCallIter + 1) :
         returned' = << Call(Calls, "_get_progressive_critique_standards", scorer,
                             iteration,
                             _get_progressive_critique_standards(histories[scorer],
                                                                 iteration),
                             "none") >>
    /\ UNCHANGED <<histories, input, state, node, decision, trace, scoring_history, result>>

\* scorer.get_scoring_trend()
GetTrend ==
    /\ node = "scorer"
    /\ \E scorer \in Scorers :
         LET r == get_scoring_trend(histories[scorer])
         IN  /\ returned' = << Call(Calls, "get_scoring_trend", scorer, <<>>, r.result,
                                    "none") >>
             /\ histories' = [histories EXCEPT ![scorer] = r.scoring_history]
    /\ UNCHANGED <<input, state, node, decision, trace, scoring_history, result>>

NextScorer == Calculate \/ CalculateOnBoth \/ GetStandards \/ GetTrend

SpecScorer == InitScorer /\ [][NextScorer]_vars

(***************************************************************************)
(* Properties of one call on a new scorer (SpecCall).                      *)
(***************************************************************************)
\* calculate_dynamic_score has returned for the drawn arguments
Called == node = "called" /\ returned # <<>>

\* every quality metric is 0
AllZero(qm) ==
    /\ qm.information_density.num = 0
    /\ qm.consistency_score.num = 0
    /\ qm.completeness_score.num = 0
    /\ qm.relevance_score.num = 0
    /\ qm.contradiction_count = 0
    /\ qm.coverage_ratio.num = 0

\* C15: calculate_dynamic_score with research_data = "" returns
\* needs_more_research = true at iteration 1 and at iteration 2, for every
\* base score pair in [1,10] x [1,10] and every query.
C15_EmptyDataNeedsMoreResearch ==
    (Called /\ input.research_data = EmptyText /\ input.iteration \in {1, 2})
        => returned[1].ret.needs_more_research

\* C15 witness: base scores 10 and 10 at iteration 1 give an overall score
\* of 6.0, above the threshold, and the call still asks for more research.
C15_Witness ==
    /\ Called
    /\ input.research_data = EmptyText
    /\ input.iteration = 1
    /\ input.base_scores = [completeness |-> 10, accuracy |-> 10]
    /\ returned[1].ret.overall_score = 60
    /\ returned[1].ret.needs_more_research

\* C16 as stated: for empty research_data all quality metrics are 0 and
\* rule (a) decides, the overall score being below threshold * tolerance
\* for every base score pair in every row of the standards table.
C16_RuleADecidesEmptyData ==
    (Called /\ input.research_data = EmptyText)
        => /\ AllZero(returned[1].ret.quality_metrics)
           /\ returned[1].rule = "a"

\* C16 amended: for empty research_data all quality metrics are 0 and
\* needs_more_research is true for every base score pair in every row of
\* the table: by rule (a) when the overall score is below
\* threshold * tolerance and otherwise by rule (c), the coverage ratio 0
\* being below 0.6.
C16_EmptyDataRuleAOrC ==
    (Called /\ input.research_data = EmptyText)
        => LET ret == returned[1].ret
           IN  /\ AllZero(ret.quality_metrics)
               /\ ret.needs_more_research
               /\ returned[1].rule \in {"a", "c"}
               /\ ret.overall_score
                    < ret.critique_standards.threshold * ret.critique_standards.tolerance
                  => returned[1].rule = "a"

\* C16 witness: in the last row of the table base scores 10 and 10 give
\* 6.0, not below 8 * 0.5, and rule (c) decides.
C16_Witness ==
    /\ Called
    /\ input.research_data = EmptyText
    /\ input.iteration = 4
    /\ input.base_scores = [completeness |-> 10, accuracy |-> 10]
    /\ returned[1].ret.overall_score = 60
    /\ returned[1].rule = "c"
    /\ returned[1].ret.needs_more_research

(***************************************************************************)
(* Properties of the scorer objects (SpecScorer).                          *)
(***************************************************************************)
\* the last call was of the given method
Returned(method) == returned # <<>> /\ returned[1].method = method

\* C17: _get_progressive_critique_standards is a table lookup: iteration 1
\* gives threshold 6 and tolerance 0.8, 2 gives 7 and 0.7, 3 gives 8 and 0.6,
\* every iteration >= 4 gives 8 and 0.5 (products 4.8, 4.9, 4.8, 4.0 as
\* decimals); the threshold never decreases and the tolerance strictly
\* decreases over iterations 1..4; the returned values depend on the
\* iteration alone, whatever calls the scorer has served before.
C17_StandardsTable ==
    Returned("_get_progressive_critique_standards") =>
        LET iteration == returned[1].args
            ret       == returned[1].ret
            self      == histories[returned[1].scorer]
        IN  /\ <<ret.threshold, ret.tolerance, ret.threshold * ret.tolerance>>
                  = (CASE iteration = 1 -> <<6, 8, 48>>
                       [] iteration = 2 -> <<7, 7, 49>>
                       [] iteration = 3 -> <<8, 6, 48>>
                       [] OTHER -> <<8, 5, 40>>)
            /\ \A i \in 1..3 :
                  /\ _get_progressive_critique_standards(self, i).threshold
                       <= _get_progressive_critique_standards(self, i + 1).threshold
                  /\ _get_progressive_critique_standards(self, i).tolerance
                       > _get_progressive_critique_standards(self, i + 1).tolerance

\* C17 witness: a scorer that has scored three calls is asked for the
\* standards of iteration 1 and returns the first row.
C17_Witness ==
    /\ Returned("_get_progressive_critique_standards")
    /\ Len(histories[returned[1].scorer]) = 3
    /\ returned[1].args = 1
    /\ returned[1].ret.threshold = 6
    /\ returned[1].ret.tolerance = 8

\* C18: two scorers with different histories that receive the same
\* (base_scores, iteration, research_data, original_query) return the same
\* adjusted scores, overall_score and needs_more_research.
C18_HistoryIndependent ==
    (Len(returned) = 2 /\ returned[1].args = returned[2].args) =>
        /\ returned[1].ret.completeness_score = returned[2].ret.completeness_score
        /\ returned[1].ret.accuracy_score = returned[2].ret.accuracy_score
        /\ returned[1].ret.overall_score = returned[2].ret.overall_score
        /\ returned[1].ret.needs_more_research = returned[2].ret.needs_more_research

\* C18 witness: scorer 1 had scored two calls and scorer 2 none when both
\* received the arguments of iteration 1.
C18_Witness ==
    /\ Len(returned) = 2
    /\ returned[1].scorer = 1 /\ returned[2].scorer = 2
    /\ returned[1].args = returned[2].args
    /\ returned[1].args.iteration = 1
    /\ Len(histories[1]) = 3
    /\ Len(histories[2]) = 1
    /\ histories[1][1].iteration # 1

\* C19: the scoring history is append-only: a new scorer has an empty
\* history; a call of calculate_dynamic_score appends the returned result at
\* the end, so the length grows by exactly 1 and the entries already there
\* keep their place and value; get_scoring_trend (and every other step)
\* leaves the history as it is.
C19_HistoryAppendOnly ==
    /\ \A i \in Scorers : histories[i] = <<>>
    /\ [][\A i \in Scorers :
            LET served == {k \in DOMAIN returned' :
                              returned'[k].seq > Calls /\ returned'[k].scorer = i}
            IN  IF served # {}
                THEN \E k \in served :
                        /\ histories'[i] = Append(histories[i], returned'[k].ret)
                        /\ Len(histories'[i]) = Len(histories[i]) + 1
                        /\ SubSeq(histories'[i], 1, Len(histories[i])) = histories[i]
                ELSE histories'[i] = histories[i]]_vars

\* C19 witness: get_scoring_trend has returned on a scorer whose history
\* holds three results, in the order of the calls.
C19_Witness ==
    /\ Returned("get_scoring_trend")
    /\ Len(histories[returned[1].scorer]) = 3
    /\ histories[returned[1].scorer][1].iteration = 2
    /\ histories[returned[1].scorer][2].iteration = 4
    /\ histories[returned[1].scorer][3].iteration = 1

\* C20: get_scoring_trend returns 'insufficient_data' when the history has
\* fewer than 2 entries; otherwise 'improving' if the last overall_score is
\* strictly greater than the first and 'declining' in every other case,
\* equal scores included, with scores listing the overall_score of every
\* entry in order; the entries in between do not matter.
C20_TrendFirstToLast ==
    Returned("get_scoring_trend") =>
        LET self == histories[returned[1].scorer]
            ret  == returned[1].ret
        IN  IF Len(self) < 2
            THEN ret.trend = "insufficient_data"
            ELSE /\ ret.trend = (IF self[Len(self)].overall_score > self[1].overall_score
                                 THEN "improving" ELSE "declining")
                 /\ ret.scores = [i \in 1..Len(self) |-> self[i].overall_score]

\* C20 witness: the first and the last of three results have the same
\* overall score, the one in between a lower one, and the trend is
\* 'declining'.
C20_Witness ==
    /\ Returned("get_scoring_trend")
    /\ Len(histories[returned[1].scorer]) = 3
    /\ histories[returned[1].scorer][1].overall_score
         = histories[returned[1].scorer][3].overall_score
    /\ histories[returned[1].scorer][2].overall_score
         < histories[returned[1].scorer][3].overall_score
    /\ returned[1].ret.trend = "declining"

(***************************************************************************)
(* Three calls in a row on a new scorer, base scores 6, 7, 8 at iterations *)
(* 1, 2, 3 with the same research data and query, then get_scoring_trend   *)
(* (the calls of test_full_scoring_workflow, with a third one).            *)
(***************************************************************************)
\* the base scores of the k-th call
SeriesBase(k) == [completeness |-> k + 5, accuracy |-> k + 5]

InitSeries ==
    /\ \E research_data \in Texts, original_query \in Queries :
         input = [research_data |-> research_data, original_query |-> original_query]
    /\ histories = << <<>> >>
    /\ returned = <<>>
    /\ state = GraphState(0)
    /\ node = "series"
    /\ decision = [branch |-> "none", rule |-> 0]
    /\ trace = <<>>
    /\ scoring_history = <<>>
    /\ result = <<>>

\* the next call of the series
SeriesCalculate ==
    /\ node = "series"
    /\ Len(histories[1]) < 3
    /\ LET k == Len(histories[1]) + 1
           r == calculate_dynamic_score(histories[1], SeriesBase(k), k,
                                        input.research_data, input.original_query)
       IN  /\ returned' = << Call(k, "calculate_dynamic_score", 1,
                                  [base_scores |-> SeriesBase(k), iteration |-> k],
                                  r.result, RuleOf(r.result)) >>
           /\ histories' = << r.scoring_history >>
    /\ UNCHANGED <<input, state, node, decision, trace, scoring_history, result>>

\* get_scoring_trend after the third call
SeriesTrend ==
    /\ node = "series"
    /\ Len(histories[1]) = 3
    /\ LET r == get_scoring_trend(histories[1])
       IN  /\ returned' = << Call(3, "get_scoring_trend", 1, <<>>, r.result, "none") >>
           /\ histories' = << r.scoring_history >>
    /\ node' = "series_done"
    /\ UNCHANGED <<input, state, decision, trace, scoring_history, result>>

NextSeries == SeriesCalculate \/ SeriesTrend

SpecSeries == InitSeries /\ [][NextSeries]_vars

\* C21: three calls in a row on a new scorer with base scores {6,6}, {7,7},
\* {8,8} at iterations 1, 2, 3, the research data and the query being the
\* same in the three calls, make get_scoring_trend return trend 'improving'
\* with exactly 3 scores.
C21_SeriesImproving ==
    node = "series_done" =>
        /\ returned[1].ret.trend = "improving"
        /\ Len(returned[1].ret.scores) = 3

\* C25 (SpecMetrics): iteration_bonus is (3 - iteration) * 0.5 for
\* iteration <= 2 (1.0 at iteration 1, 0.5 at iteration 2) and 0 otherwise;
\* complexity_penalty is (iteration - 2) * 0.2 for iteration > 2 and 0
\* otherwise; both are >= 0 and never both non-zero; consistency_bonus is
\* 0.3 / 0.1 / 0 for consistency > 0.8 / > 0.6 / otherwise and density_bonus
\* is 0.2 / 0.1 / 0 for density > 0.7 / > 0.5 / otherwise.  Tenths.
C25_AdjustmentSchedule ==
    Scored =>
        LET f  == returned[1].ret.adjustment_factors
            it == input.iteration
            c  == input.quality_metrics.consistency_score
            d  == input.quality_metrics.information_density
        IN  /\ f.iteration_bonus = (CASE it = 1 -> 10 [] it = 2 -> 5 [] OTHER -> 0)
            /\ f.complexity_penalty = (IF it > 2 THEN 2 * it - 4 ELSE 0)
            /\ f.iteration_bonus >= 0 /\ f.complexity_penalty >= 0
            /\ f.iteration_bonus = 0 \/ f.complexity_penalty = 0
            /\ f.consistency_bonus = (IF 10 * c.num > 8 * c.den THEN 3
                                      ELSE IF 10 * c.num > 6 * c.den THEN 1 ELSE 0)
            /\ f.density_bonus = (IF 10 * d.num > 7 * d.den THEN 2
                                  ELSE IF 10 * d.num > 5 * d.den THEN 1 ELSE 0)

\* C25 witness: at iteration 4 a consistency of exactly 0.8 and a density of
\* exactly 0.7 earn the lower bonuses 0.1 and 0.1, the penalty is 0.4 and
\* there is no iteration bonus.
C25_Witness ==
    /\ Scored
    /\ input.iteration = 4
    /\ input.quality_metrics.consistency_score = Q(4, 5)
    /\ input.quality_metrics.information_density = Q(7, 10)
    /\ returned[1].ret.adjustment_factors
         = [iteration_bonus |-> 0, complexity_penalty |-> 4,
            consistency_bonus |-> 1, density_bonus |-> 1]

\* C26 (SpecCall): for every non-empty text contradiction_count equals the
\* number of marker occurrences the consistency score subtracts 0.1 for:
\* consistency_score = max(0, 1 - 0.1 * contradiction_count).
C26_SameMarkerCount ==
    (Called /\ ~IsBlank(input.research_data)) =>
        LET qm == returned[1].ret.quality_metrics
        IN  IF qm.contradiction_count >= 10
            THEN qm.consistency_score.num = 0
            ELSE 10 * qm.consistency_score.num
                   = (10 - qm.contradiction_count) * qm.consistency_score.den

(***************************************************************************)
(* Further properties of the run (Spec).                                   *)
(***************************************************************************)
\* the research passes so far whose researcher succeeded
SuccessfulPasses ==
    {i \in DOMAIN trace : trace[i].node = "research" /\ trace[i].outcome = "ok"}

\* the iteration numbers of the section headers in a findings string, in order
RECURSIVE HeaderNumbers(_)
HeaderNumbers(data) ==
    IF data = <<>> THEN <<>>
    ELSE IF data[1].kind = "header"
         THEN <<data[1].n>> \o HeaderNumbers(Tail(data))
         ELSE HeaderNumbers(Tail(data))

\* C27: every successful research pass, the first included, appends its
\* findings under a section header naming that pass's iteration, so after k
\* successful passes researched_data holds k headers, numbered by the
\* iterations of those passes.
C27_EveryPassLabeled ==
    LET numbers == HeaderNumbers(state.researched_data)
    IN  /\ Len(numbers) = Cardinality(SuccessfulPasses)
        /\ \A k \in DOMAIN numbers :
              \E i \in SuccessfulPasses :
                  /\ Cardinality({j \in SuccessfulPasses : j <= i}) = k
                  /\ Cardinality({j \in 1..i : trace[j].node = "research"}) = numbers[k]

\* the steps of the trace whose node set error_message
FailedSteps ==
    {i \in DOMAIN trace :
        \/ trace[i].node \in {"plan", "research", "critique"}
             /\ trace[i].outcome \in {"fail", "raise"}
        \/ trace[i].node \in {"classify", "write_report"} /\ trace[i].outcome = "raise"}

\* C28: write_report runs exactly once, as the last node of every run, also
\* after classify, plan, research or critique marked the state failed, and
\* it overwrites the success flag: execute() returns success = true
\* exactly when writer.write_report returned without raising, and error is
\* the message of the last node that failed ('' when none did).
C28_WriterDecidesSuccess ==
    node = "returned" =>
        /\ Count("write_report") = 1
        /\ trace[Len(trace)].node = "write_report"
        /\ result[1].success <=> trace[Len(trace)].outcome # "raise"
        /\ result[1].error =
              (IF FailedSteps = {} THEN ""
               ELSE LET last == CHOOSE i \in FailedSteps : \A j \in FailedSteps : j <= i
                    IN  ErrorOf(trace[last].node, trace[last].outcome))

\* C28 witness: the critic failed on the last pass, the writer returned a
\* report, and execute() returned success = true with the critic's error.
C28_Witness ==
    /\ node = "returned"
    /\ trace[Len(trace) - 1].node = "critique"
    /\ trace[Len(trace) - 1].outcome = "fail"
    /\ trace[Len(trace)].outcome = "ok"
    /\ result[1].success
    /\ result[1].error = ErrorOf("critique", "fail")
    /\ result[1].final_report # ""

\* C24: classify_query always yields an intent among the four labels and
\* deep_dive when the LLM text is none of them, but when the LLM call itself
\* fails the classification is a hard failure: the classify node marks the
\* run failed instead of defaulting to deep_dive.
C24_ClassifierDefaultAndFailure ==
    (node = "plan" /\ trace[1].outcome = "ok") =>
        LET answer == trace[1].data
        IN  /\ state.intent \in Intents
            /\ (answer.success /\ StripLower(answer.result) \notin Intents)
                  => state.intent = "deep_dive"
            /\ ~answer.success => (~state.success /\ state.error_message # "")

(***************************************************************************)
(* CriticAnalystAgent.critique_research (src/src/agents/base_agents.py)    *)
(* and the critique node around it.                                        *)
(***************************************************************************)
\* what execute_task hands to critique_research (an AgentResult).  form is
\* what the text of the LLM is: a JSON object, a JSON object in a markdown
\* fence, a Python dict literal, a JSON array, or prose.  For the objects,
\* score_type says whether completeness_score and accuracy_score are
\* integers, absent, or strings, and needs_more_research is the value the
\* LLM reports.  keyword says whether the text contains one of the
\* deficiency keywords ('insufficient', 'incomplete', 'need more', ...).
\* An object whose scores are absent has no critique key either.
CriticAnswer(success, form, score_type, score, nmr, keyword) ==
    [ success             |-> success,
      form                |-> form,
      score_type          |-> score_type,
      completeness_score  |-> score,
      accuracy_score      |-> score,
      needs_more_research |-> nmr,
      keyword             |-> keyword,
      text                |-> IF success THEN "llm text" ELSE "",
      critique            |-> IF score_type = "absent" THEN "absent" ELSE "llm critique",
      error_message       |-> IF success THEN "" ELSE "llm error" ]

CriticAnswers ==
    {CriticAnswer(FALSE, "none", "absent", 0, FALSE, FALSE)}
      \cup {CriticAnswer(TRUE, form, "int", 8, nmr, FALSE) :
                form \in {"json", "fenced_json", "dict_literal"}, nmr \in BOOLEAN}
      \cup {CriticAnswer(TRUE, "json", "absent", 0, nmr, FALSE) : nmr \in BOOLEAN}
      \cup {CriticAnswer(TRUE, "json", "str", 0, nmr, keyword) :
                nmr \in BOOLEAN, keyword \in BOOLEAN}
      \cup {CriticAnswer(TRUE, "prose", "absent", 0, FALSE, keyword) : keyword \in BOOLEAN}
      \cup {CriticAnswer(TRUE, "json_array", "absent", 0, FALSE, FALSE)}

\* the fence is removed, then json.loads or ast.literal_eval gives a dict
ParsesToObject(answer) == answer.form \in {"json", "fenced_json", "dict_literal"}

\* the try block returns: the text parses to a dict (a list has no .get)
\* and the scorer accepts the base scores (a string score raises TypeError
\* in _apply_dynamic_adjustment, before the result is appended)
TakesJsonPath(answer) == ParsesToObject(answer) /\ answer.score_type # "str"

\* critique_data.get('critique', raw_text)
CritiqueOf(answer) == IF answer.critique = "absent" THEN answer.text ELSE answer.critique

\* critique_data.get('completeness_score', 5), .get('accuracy_score', 5)
BaseScoresOf(answer) ==
    IF answer.score_type = "int"
    THEN [completeness |-> answer.completeness_score, accuracy |-> answer.accuracy_score]
    ELSE [completeness |-> 5, accuracy |-> 5]

\* the dictionary critique_research returns around the scorer's result
CritiqueReturn(dynamic, critique, nmr, success, error) ==
    [ result |->
        [ critique            |-> critique,
          completeness_score  |-> dynamic.result.completeness_score,
          accuracy_score      |-> dynamic.result.accuracy_score,
          overall_score       |-> dynamic.result.overall_score,
          needs_more_research |-> nmr,
          iteration           |-> dynamic.result.iteration,
          success             |-> success,
          error               |-> error ],
      scoring_history |-> dynamic.scoring_history ]

\* critique_research taking the keyword heuristic alone in the fallback
critique_research_keyword_only(self, answer, research_data, original_query, iteration) ==
    LET parsed  == calculate_dynamic_score(self, BaseScoresOf(answer), iteration,
                                           research_data, original_query)
        neutral == calculate_dynamic_score(self, [completeness |-> 5, accuracy |-> 5],
                                           iteration, research_data, original_query)
    IN  IF ~answer.success
        THEN CritiqueReturn(neutral, "", TRUE, FALSE, answer.error_message)
        ELSE IF TakesJsonPath(answer)
        THEN CritiqueReturn(parsed, CritiqueOf(answer), parsed.result.needs_more_research,
                            TRUE, "")
        ELSE CritiqueReturn(neutral, answer.text, answer.keyword, TRUE, "")

\* critique_research returning the scorer's decision when the task failed
critique_research_scorer_on_failure(self, answer, research_data, original_query, iteration) ==
    LET parsed  == calculate_dynamic_score(self, BaseScoresOf(answer), iteration,
                                           research_data, original_query)
        neutral == calculate_dynamic_score(self, [completeness |-> 5, accuracy |-> 5],
                                           iteration, research_data, original_query)
    IN  IF ~answer.success
        THEN CritiqueReturn(neutral, "", neutral.result.needs_more_research, FALSE,
                            answer.error_message)
        ELSE IF TakesJsonPath(answer)
        THEN CritiqueReturn(parsed, CritiqueOf(answer), parsed.result.needs_more_research,
                            TRUE, "")
        ELSE CritiqueReturn(neutral, answer.text,
                            answer.keyword \/ neutral.result.needs_more_research, TRUE, "")

\* critique_research also asking for more research when the LLM reports so
critique_research_trusting_llm(self, answer, research_data, original_query, iteration) ==
    LET parsed  == calculate_dynamic_score(self, BaseScoresOf(answer), iteration,
                                           research_data, original_query)
        neutral == calculate_dynamic_score(self, [completeness |-> 5, accuracy |-> 5],
                                           iteration, research_data, original_query)
    IN  IF ~answer.success
        THEN CritiqueReturn(neutral, "", TRUE, FALSE, answer.error_message)
        ELSE IF TakesJsonPath(answer)
        THEN CritiqueReturn(parsed, CritiqueOf(answer),
                            answer.needs_more_research
                              \/ parsed.result.needs_more_research,
                            TRUE, "")
        ELSE CritiqueReturn(neutral, answer.text,
                            answer.keyword \/ neutral.result.needs_more_research, TRUE, "")

\* the returned dictionary and the scorer's history after the call: the
\* task failed (scorer on 5/5, needs_more_research True, success False);
\* the try block returned (scorer on the parsed scores, its decision); or
\* the except branch (scorer on 5/5, keyword heuristic or its decision)
critique_research(self, answer, research_data, original_query, iteration) ==
    LET parsed  == calculate_dynamic_score(self, BaseScoresOf(answer), iteration,
                                           research_data, original_query)
        neutral == calculate_dynamic_score(self, [completeness |-> 5, accuracy |-> 5],
                                           iteration, research_data, original_query)
    IN  IF ~answer.success
        THEN CritiqueReturn(neutral, "", TRUE, FALSE, answer.error_message)
        ELSE IF TakesJsonPath(answer)
        THEN CritiqueReturn(parsed, CritiqueOf(answer), parsed.result.needs_more_research,
                            TRUE, "")
        ELSE CritiqueReturn(neutral, answer.text,
                            answer.keyword \/ neutral.result.needs_more_research, TRUE, "")

\* the critique node is entered after a research pass: the pass may have
\* failed, and an earlier critique may have left its feedback and decision
InitCritique ==
    /\ \E research_data \in Texts, original_query \in Queries, answer \in CriticAnswers,
          iteration \in 1..MaxCallIter :
         input = [ research_data  |-> research_data,
                   original_query |-> original_query,
                   answer         |-> answer,
                   iteration      |-> iteration ]
    /\ \E m \in 1..MaxIter, ok \in BOOLEAN, nmr \in BOOLEAN :
         \E i \in 1..m :
            state = [GraphState(m) EXCEPT
                        !.research_iteration = i,
                        !.success = ok,
                        !.needs_more_research = nmr,
                        !.critique_feedback = IF i > 1 THEN "critique" ELSE ""]
    /\ histories = << <<>> >>
    /\ returned = <<>>
    /\ node = "critique"
    /\ decision = [branch |-> "none", rule |-> 0]
    /\ trace = <<>>
    /\ scoring_history = <<>>
    /\ result = <<>>

\* critic.critique_research(research_data, original_query, iteration)
\* called on its own
CritiqueResearchCall ==
    /\ node = "critique"
    /\ LET r == critique_research(histories[1], input.answer, input.research_data,
                                  input.original_query, input.iteration)
       IN  /\ returned' = << Call(1, "critique_research", 1, input.iteration,
                                  r.result, "none") >>
           /\ histories' = << r.scoring_history >>
    /\ node' = "critic_returned"
    /\ UNCHANGED <<input, state, decision, trace, scoring_history, result>>

\* _critique_node on the state, and the conditional edge after it
CritiqueNodeCall ==
    /\ node = "critique"
    /\ LET r == critique_research(histories[1], input.answer, input.research_data,
                                  input.original_query, CritiqueIteration(state))
       IN  /\ returned' = << Call(1, "critique_research", 1, CritiqueIteration(state),
                                  r.result, "none") >>
           /\ histories' = << r.scoring_history >>
           /\ state' = _critique_node(state, IF r.result.success THEN "ok" ELSE "fail",
                                      r.result.needs_more_research)
    /\ decision' = [branch |-> _should_continue(state'), rule |-> ShouldContinueRule(state')]
    /\ node' = IF _should_continue(state') = "continue" THEN "research" ELSE "write_report"
    /\ UNCHANGED <<input, trace, scoring_history, result>>

NextCritique == CritiqueResearchCall \/ CritiqueNodeCall

SpecCritique == InitCritique /\ [][NextCritique]_vars

(***************************************************************************)
(* The research/critique loop of a run with the critic and its scorer in   *)
(* it: execute(query, max_iterations) after the classify and plan nodes    *)
(* succeeded, up to the write_report node.                                 *)
(***************************************************************************)
\* the critic's answers in the loop: a failed task, a JSON object whose LLM
\* says no more research is needed, and prose without a deficiency keyword
RunAnswers ==
    { CriticAnswer(FALSE, "none", "absent", 0, FALSE, FALSE),
      CriticAnswer(TRUE, "json", "int", 8, FALSE, FALSE),
      CriticAnswer(TRUE, "prose", "absent", 0, FALSE, FALSE) }

\* what state["researched_data"] reads as: "" and "CrewAI framework"
RunTexts == {EmptyText, << <<"CrewAI", "framework">> >>}

InitRun ==
    /\ \E original_query \in Queries : input = [original_query |-> original_query]
    /\ \E m \in 0..MaxIter :
         state = _plan_node(_classify_node(GraphState(m), "ok", "deep_dive"),
                            "ok", <<"q1", "q2">>)
    /\ node = "research"
    /\ decision = [branch |-> "none", rule |-> 0]
    /\ trace = <<>>
    /\ scoring_history = <<>>
    /\ result = <<>>
    /\ histories = << <<>> >>
    /\ returned = <<>>

\* _research_node; the researcher returns findings or fails
RunResearchNode ==
    /\ node = "research"
    /\ state.research_iteration < MaxPasses
    /\ \E out \in {"ok", "fail"} :
         /\ state' = _research_node(state, out, <<T(1)>>)
         /\ trace' = Append(trace, Step("research", out, <<T(1)>>, FALSE))
    /\ node' = "critique"
    /\ UNCHANGED <<decision, scoring_history, result, scorer_vars>>

\* _critique_node with the critic called on the query of the run, and the
\* conditional edge after it
RunCritiqueNode ==
    /\ node = "critique"
    /\ \E answer \in RunAnswers, research_data \in RunTexts :
         LET r   == critique_research(histories[1], answer, research_data,
                                      input.original_query, CritiqueIteration(state))
             out == IF r.result.success THEN "ok" ELSE "fail"
         IN  /\ returned' = << Call(Len(r.scoring_history), "critique_research", 1,
                                    CritiqueIteration(state), r.result, "none") >>
             /\ histories' = << r.scoring_history >>
             /\ state' = _critique_node(state, out, r.result.needs_more_research)
             /\ trace' = Append(trace, Step("critique", out, <<>>,
                                            r.result.needs_more_research))
    /\ scoring_history' = Append(scoring_history, ScoringEntry(CritiqueIteration(state)))
    /\ decision' = [branch |-> _should_continue(state'), rule |-> ShouldContinueRule(state')]
    /\ node' = IF _should_continue(state') = "continue" THEN "research" ELSE "write_report"
    /\ UNCHANGED <<input, result>>

\* calculate_dynamic_score called on the scorer with the query of the run
RunScorerCall ==
    /\ node = "research"
    /\ trace = <<>>
    /\ \E base_scores \in BaseScores, iteration \in 1..MaxCallIter, research_data \in Texts :
         LET r == calculate_dynamic_score(histories[1], base_scores, iteration,
                                          research_data, input.original_query)
         IN  /\ returned' = << Call(1, "calculate_dynamic_score", 1,
                                    [base_scores |-> base_scores, iteration |-> iteration,
                                     research_data |-> research_data],
                                    r.result, RuleOf(r.result)) >>
             /\ histories' = << r.scoring_history >>
    /\ node' = "called"
    /\ UNCHANGED <<input, state, decision, trace, scoring_history, result>>

NextRun == RunResearchNode \/ RunCritiqueNode \/ RunScorerCall

SpecRun == InitRun /\ [][NextRun]_vars

(***************************************************************************)
(* Properties of critique_research and the critique node (SpecCritique).   *)
(***************************************************************************)
\* what the scorer returns for base scores 5/5 on the input of the call
NeutralScore ==
    calculate_dynamic_score(<<>>, [completeness |-> 5, accuracy |-> 5],
                            returned[1].args, input.research_data, input.original_query)

\* the LLM task succeeded and its text is neither JSON nor a dict literal
UnparseableAnswered ==
    /\ Returned("critique_research")
    /\ input.answer.success
    /\ input.answer.form = "prose"

\* C22 as stated: when the critic's task succeeds with text that parses
\* neither as JSON nor as a dict literal, critique_research returns
\* success = true with the raw text as critique, the scorer has served one
\* call with base scores 5/5, and needs_more_research is what the keyword
\* heuristic says.
C22_FallbackKeywordDecides ==
    UnparseableAnswered =>
        /\ returned[1].ret.success
        /\ returned[1].ret.critique = input.answer.text
        /\ histories[1] = NeutralScore.scoring_history
        /\ returned[1].ret.needs_more_research = input.answer.keyword

\* C22, amended: in that case critique_research returns success = true with
\* the raw text as critique, the scorer has served exactly one call, with
\* base scores 5/5, and needs_more_research is true exactly when the text
\* holds a deficiency keyword or the scorer's decision is true.
C22_FallbackKeywordOrScorer ==
    UnparseableAnswered =>
        /\ returned[1].ret.success
        /\ returned[1].ret.error = ""
        /\ returned[1].ret.critique = input.answer.text
        /\ Len(histories[1]) = 1
        /\ histories[1] = NeutralScore.scoring_history
        /\ returned[1].ret.completeness_score = histories[1][1].completeness_score
        /\ returned[1].ret.accuracy_score = histories[1][1].accuracy_score
        /\ returned[1].ret.needs_more_research
              = (input.answer.keyword \/ histories[1][1].needs_more_research)

\* text without a keyword, and the scorer's decision asks for more research
C22_Witness ==
    /\ UnparseableAnswered
    /\ ~input.answer.keyword
    /\ histories[1][1].needs_more_research
    /\ returned[1].ret.needs_more_research

\* C23: when the critic's LLM task fails, critique_research returns
\* success = false, the task's error message as error and
\* needs_more_research = true whatever the scorer decided, the scorer having
\* served one call with base scores 5/5; the critique node then marks the
\* state failed, leaves critique_feedback and needs_more_research as they
\* were, and _should_continue returns 'finish'.
C23_FailedCritic ==
    [][ (node = "critique" /\ node' # "critique" /\ ~input.answer.success) =>
          /\ ~returned'[1].ret.success
          /\ returned'[1].ret.error = input.answer.error_message
          /\ returned'[1].ret.error # ""
          /\ returned'[1].ret.needs_more_research
          /\ returned'[1].ret.critique = ""
          /\ Len(histories'[1]) = Len(histories[1]) + 1
          /\ histories'[1] =
                calculate_dynamic_score(histories[1], [completeness |-> 5, accuracy |-> 5],
                                        returned'[1].args, input.research_data,
                                        input.original_query).scoring_history
          /\ (node' # "critic_returned") =>
                /\ ~state'.success
                /\ state'.error_message # ""
                /\ state'.critique_feedback = state.critique_feedback
                /\ state'.needs_more_research = state.needs_more_research
                /\ state'.research_iteration = state.research_iteration
                /\ decision'.branch = "finish"
                /\ decision'.rule = 1
                /\ node' = "write_report" ]_vars

\* the critique node after a failed critic task whose scorer decided
\* against more research, in a state that had asked for more research and
\* was below the ceiling
C23_Witness ==
    /\ Returned("critique_research")
    /\ ~input.answer.success
    /\ ~returned[1].ret.success
    /\ returned[1].ret.needs_more_research
    /\ ~histories[1][1].needs_more_research
    /\ node = "write_report"
    /\ ~state.success
    /\ state.needs_more_research
    /\ state.research_iteration < state.max_iterations
    /\ decision.branch = "finish"

\* the answer with the other LLM-reported needs_more_research
Flipped(answer) == [answer EXCEPT !.needs_more_research = ~@]

\* the needs_more_research the call returns for an answer, everything else
\* as in the call being made
ReturnedFor(answer, iteration) ==
    critique_research(histories[1], answer, input.research_data, input.original_query,
                      iteration).result.needs_more_research

\* the branch decision after the critique node has stored nmr
BranchFor(nmr) == _should_continue(_critique_node(state, "ok", nmr))

\* C30 as stated: when the LLM's text parses as a JSON object (or dict
\* literal), the needs_more_research that critique_research returns, and the
\* critique node stores, is the scorer's decision; the answer that differs
\* only in the LLM-reported needs_more_research gives the same returned
\* value and the same branch decision.
C30_ScorerAloneDecides ==
    [][ (node = "critique" /\ node' # "critique" /\ input.answer.success
            /\ ParsesToObject(input.answer)) =>
          LET scorer_decision == histories'[1][Len(histories'[1])].needs_more_research
              other == ReturnedFor(Flipped(input.answer), returned'[1].args)
          IN  /\ returned'[1].ret.needs_more_research = scorer_decision
              /\ returned'[1].ret.needs_more_research = other
              /\ (node' # "critic_returned") =>
                    /\ state'.needs_more_research = scorer_decision
                    /\ decision'.branch = BranchFor(other) ]_vars

\* C30, amended: when the LLM's text parses as a JSON object (or dict
\* literal) whose scores are numbers or absent, the needs_more_research that
\* critique_research returns, and the critique node stores, is the scorer's
\* decision; for every text that parses as an object, the answer that
\* differs only in the LLM-reported needs_more_research gives the same
\* returned value and the same branch decision.
C30_ScorerDecidesNumericScores ==
    [][ (node = "critique" /\ node' # "critique" /\ input.answer.success
            /\ ParsesToObject(input.answer)) =>
          LET scorer_decision == histories'[1][Len(histories'[1])].needs_more_research
              other == ReturnedFor(Flipped(input.answer), returned'[1].args)
          IN  /\ TakesJsonPath(input.answer) =>
                    returned'[1].ret.needs_more_research = scorer_decision
              /\ returned'[1].ret.needs_more_research = other
              /\ (node' # "critic_returned") =>
                    /\ state'.success
                    /\ state'.needs_more_research = returned'[1].ret.needs_more_research
                    /\ TakesJsonPath(input.answer) =>
                          state'.needs_more_research = scorer_decision
                    /\ decision'.branch = BranchFor(other) ]_vars

\* the LLM reported needs_more_research = true, the scorer decided against
\* it, and the run below its ceiling finishes
C30_Witness ==
    /\ Returned("critique_research")
    /\ TakesJsonPath(input.answer)
    /\ input.answer.needs_more_research
    /\ ~returned[1].ret.needs_more_research
    /\ node = "write_report"
    /\ state.success
    /\ ~state.needs_more_research
    /\ state.research_iteration < state.max_iterations
    /\ decision.branch = "finish"

(***************************************************************************)
(* Properties of the loop with the critic and its scorer (SpecRun).        *)
(***************************************************************************)
\* no key concept can be extracted from the query of the run
NoConcept == _extract_key_concepts(input.original_query) = {}

\* every research and critique step of the run succeeded
LoopAgentsSucceed ==
    \A i \in DOMAIN trace :
        trace[i].node \in {"research", "critique"} => trace[i].outcome = "ok"

\* for a query without key concepts every result of the scorer has
\* coverage_ratio 0, below the 0.6 of rule (c), and needs_more_research true
AlwaysMoreWithoutConcept ==
    /\ \A i \in DOMAIN histories[1] :
          /\ histories[1][i].quality_metrics.coverage_ratio.num = 0
          /\ LtTenths(histories[1][i].quality_metrics.coverage_ratio, 6)
          /\ histories[1][i].needs_more_research
    /\ node = "called" =>
          /\ returned[1].ret.needs_more_research
          /\ returned[1].rule \in {"a", "b", "c"}
    /\ \A i \in DOMAIN trace :
          (trace[i].node = "critique" /\ trace[i].outcome = "ok") => trace[i].nmr

\* C29 as stated: when no key concept can be extracted from the query,
\* coverage_ratio is 0 for every research text, the condition of rule (c)
\* holds and calculate_dynamic_score returns needs_more_research = true for
\* all base scores, iterations and research data; a run on such a query
\* whose agents all succeed makes exactly max_iterations research passes and
\* leaves the loop by the ceiling rule.
C29_NoConceptRunsToCeiling ==
    NoConcept =>
        /\ AlwaysMoreWithoutConcept
        /\ (LoopLeft /\ LoopAgentsSucceed) =>
              /\ Count("research") = state.max_iterations
              /\ decision.branch = "finish"
              /\ decision.rule = 2

\* C29, amended: the same, with the number of research passes being
\* max_iterations when max_iterations >= 1 and one when max_iterations is 0.
C29_NoConceptRunsToCeilingOrOnce ==
    NoConcept =>
        /\ AlwaysMoreWithoutConcept
        /\ (LoopLeft /\ LoopAgentsSucceed) =>
              /\ Count("research")
                    = (IF state.max_iterations >= 1 THEN state.max_iterations ELSE 1)
              /\ Count("critique") = Count("research")
              /\ state.research_iteration = Count("research")
              /\ decision.branch = "finish"
              /\ decision.rule = 2

\* a run on a query without key concepts that left the loop, with
\* max_iterations >= 2, all agents succeeding, the LLM never asking for more
\* research
C29_Witness ==
    /\ NoConcept
    /\ node = "write_report"
    /\ LoopAgentsSucceed
    /\ state.max_iterations >= 2
    /\ Count("research") = state.max_iterations
    /\ Len(histories[1]) = state.max_iterations
    /\ returned[1].ret.critique = "llm critique"
====
